---- MODULE Spec2Model ----
(***************************************************************************)
(* A model of rosm_geo: WGS84 coordinates (coord.rs), dateline-aware       *)
(* rectangles (rect.rs) and the Web-Mercator tile grid (mercator.rs).      *)
(*                                                                         *)
(* The library is a set of pure functions over small value types.  Each    *)
(* function is an operator below, computed the way the code computes it;   *)
(* each action of the specification is one call of a public function on    *)
(* inputs drawn from bounded sets, and records the call and what it        *)
(* returned (or that it panicked).                                         *)
(*                                                                         *)
(* Numbers.                                                                *)
(*  - f64 degrees are integers counting HALF degrees: Deg(n) is n degrees. *)
(*    Inputs are whole degrees, so the code's "/ 2.0" is exact here as it  *)
(*    is in f64.  NaN and the infinities are the values NaN, PosInf and    *)
(*    NegInf; every f64 comparison goes through FLe/FLt/FEq, which are     *)
(*    false on NaN as IEEE 754 comparisons are.                            *)
(*  - u32 values are pairs of 16-bit limbs [hi, lo] (value hi*2^16 + lo),  *)
(*    so that the full 32-bit width, 2^31 and wrap-around at 2^32 are in   *)
(*    the model.  An arithmetic step returns the wrapped value and whether *)
(*    it overflowed; a build with overflow checks (debug) panics on        *)
(*    overflow and one without (release) continues with the wrapped value. *)
(***************************************************************************)
EXTENDS Integers, Sequences, FiniteSets, TLC

VARIABLES
    overflow_checks,  \* the build profile: TRUE = overflow panics (debug)
    op,               \* the function called last ("none" before any call)
    args,             \* its arguments
    ret               \* what it returned: Ret(v), or Panic

vars == <<overflow_checks, op, args, ret>>

\* A call that returned v / a call that panicked (unwrap of Err, overflow).
Ret(v) == [tag |-> "Ret", val |-> v]
Panic == [tag |-> "Panic"]
\* Rust's Result.
Ok(v) == [tag |-> "Ok", val |-> v]
Err(e) == [tag |-> "Err", err |-> e]

-----------------------------------------------------------------------------
(* f64 *)

Deg(n) == 2 * n

NaN == Deg(-7777)
PosInf == Deg(9999)
NegInf == Deg(-9999)

IsNaN(v) == v = NaN
FLe(a, b) == ~IsNaN(a) /\ ~IsNaN(b) /\ a <= b
FLt(a, b) == ~IsNaN(a) /\ ~IsNaN(b) /\ a < b
FEq(a, b) == ~IsNaN(a) /\ ~IsNaN(b) /\ a = b

\* f64::abs
fabs(v) == IF IsNaN(v) THEN NaN ELSE IF v < 0 THEN -v ELSE v

\* (lo..=hi).contains(&v)
RangeInclusiveContains(lo, hi, v) == FLe(lo, v) /\ FLe(v, hi)

-----------------------------------------------------------------------------
(* coord.rs: GeoCoord *)

GeoCoord(lon, lat) == [lon |-> lon, lat |-> lat]

\* A plausible slip: validating the longitude only.
from_degrees_lon_only(lon, lat) ==
    IF RangeInclusiveContains(Deg(-180), Deg(180), lon)
    THEN Ok(GeoCoord(lon, lat))
    ELSE Err("InvalidGeoCoord")

\* GeoCoord::from_degrees
from_degrees(lon, lat) ==
    IF RangeInclusiveContains(Deg(-180), Deg(180), lon)
       /\ RangeInclusiveContains(Deg(-90), Deg(90), lat)
    THEN Ok(GeoCoord(lon, lat))
    ELSE Err("InvalidGeoCoord")

\* A plausible slip: the derived, field-wise equality.
eq_fieldwise(self, other) ==
    FEq(self.lon, other.lon) /\ FEq(self.lat, other.lat)

\* impl PartialEq<GeoCoord> for GeoCoord
eq(self, other) ==
    IF FEq(fabs(self.lon), Deg(180)) /\ FEq(fabs(other.lon), Deg(180))
    THEN TRUE
    ELSE IF FEq(self.lat, other.lat) /\ FEq(fabs(self.lat), Deg(90))
    THEN TRUE
    ELSE FEq(self.lon, other.lon) /\ FEq(self.lat, other.lat)

\* The raw f64 arguments from_degrees is called with: in range, on the
\* boundary, just outside it, and the non-finite values of the tests.
RawLons == {Deg(-181), Deg(-180) - 1, Deg(-180), Deg(-180) + 1, 0, Deg(45),
            Deg(180) - 1, Deg(180), Deg(180) + 1, Deg(181), NaN, PosInf, NegInf}
RawLats == {Deg(-91), Deg(-90) - 1, Deg(-90), Deg(-90) + 1, 0, Deg(45),
            Deg(90) - 1, Deg(90), Deg(90) + 1, Deg(91), NaN, PosInf, NegInf}

\* Longitudes and latitudes of the coordinates the other functions are
\* called with (whole degrees; poles, dateline and both hemispheres).
Lons == {Deg(-180), Deg(-20), Deg(-10), 0, Deg(10), Deg(20), Deg(180)}
Lats == {Deg(-90), Deg(-20), Deg(20), Deg(90)}

\* The valid coordinates: what from_degrees admits.
GeoCoords ==
    {from_degrees(lon, lat).val : lon \in Lons, lat \in Lats}

-----------------------------------------------------------------------------
(* rect.rs: GeoRect *)

MkGeoRect(top_left, bottom_right) == [top_left |-> top_left, bottom_right |-> bottom_right]

GeoRect_new(top_left, bottom_right) ==
    IF FLt(top_left.lat, bottom_right.lat)
    THEN Err("InvalidGeoRect")
    ELSE Ok(MkGeoRect(top_left, bottom_right))

crosses_dateline(self) == FLt(self.bottom_right.lon, self.top_left.lon)

\* v / 2.0 (exact: v is a sum of whole degrees, counted in half degrees)
Half(v) == v \div 2

\* GeoRect::center; the unwrap() panics when from_degrees refuses the midpoint.
center(self) ==
    LET lat == Half(self.top_left.lat + self.bottom_right.lat)
        a == Deg(180) - self.top_left.lon
        b == fabs(Deg(-180) - self.bottom_right.lon)
        lon == IF crosses_dateline(self)
               THEN Half(a + b) + self.top_left.lon
               ELSE Half(self.top_left.lon + self.bottom_right.lon)
        c == from_degrees(lon, lat)
    IN  IF c.tag = "Ok" THEN Ret(c.val) ELSE Panic

\* A plausible slip: < and > in place of <= and >=.
contains_lon_strict(self, lon) ==
    IF ~crosses_dateline(self)
    THEN FLt(self.top_left.lon, lon) /\ FLt(lon, self.bottom_right.lon)
    ELSE FLt(self.top_left.lon, lon) \/ FLt(lon, self.bottom_right.lon)

contains_lon(self, lon) ==
    IF ~crosses_dateline(self)
    THEN FLe(self.top_left.lon, lon) /\ FLe(lon, self.bottom_right.lon)
    ELSE FLe(self.top_left.lon, lon) \/ FLe(lon, self.bottom_right.lon)

contains_coord(self, coord) ==
    IF FLe(coord.lat, self.top_left.lat) /\ FLe(self.bottom_right.lat, coord.lat)
    THEN contains_lon(self, coord.lon)
    ELSE FALSE

\* A plausible slip: the dateline case left out, corners only.
contains_rect_corners_only(self, rect) ==
    contains_coord(self, rect.top_left) /\ contains_coord(self, rect.bottom_right)

\* GeoRect::contains_rect: the early "return false", then the corner test
contains_rect(self, rect) ==
    IF ~crosses_dateline(self) /\ crosses_dateline(rect)
       /\ (FLt(Deg(-180), self.top_left.lon) \/ FLt(self.bottom_right.lon, Deg(180)))
    THEN FALSE
    ELSE contains_coord(self, rect.top_left) /\ contains_coord(self, rect.bottom_right)

intersects(self, rect) ==
    LET tl_lat == self.top_left.lat
        br_lat == self.bottom_right.lat
    IN  IF FLt(rect.top_left.lat, br_lat) \/ FLt(tl_lat, rect.bottom_right.lat)
        THEN FALSE
        ELSE IF (FEq(fabs(tl_lat), Deg(90)) /\ FEq(tl_lat, rect.top_left.lat))
                \/ (FEq(fabs(br_lat), Deg(90)) /\ FEq(br_lat, rect.bottom_right.lat))
        THEN TRUE
        ELSE contains_lon(self, rect.top_left.lon)
             \/ contains_lon(self, rect.bottom_right.lon)

\* The valid rectangles: what GeoRect::new admits of the valid coordinates.
GeoRects ==
    {GeoRect_new(tl, br).val :
        <<tl, br>> \in {p \in GeoCoords \X GeoCoords :
                            GeoRect_new(p[1], p[2]).tag = "Ok"}}

-----------------------------------------------------------------------------
(* u32 *)

U32Bits == 32
\* The zoom levels the tile functions are enumerated at in full.
MaxSmallZ == 3

Base == 2^16

\* The u32 with the (small) value n.
U32Of(n) == [hi |-> n \div Base, lo |-> n % Base]
U32Max == [hi |-> Base - 1, lo |-> Base - 1]

U32Lt(a, b) == a.hi < b.hi \/ (a.hi = b.hi /\ a.lo < b.lo)
U32Le(a, b) == a = b \/ U32Lt(a, b)

\* a + b, a - b: the value modulo 2^32 and whether the exact result is
\* outside u32.
AddW(a, b) ==
    LET lo == a.lo + b.lo
        hi == a.hi + b.hi + lo \div Base
    IN  [v |-> [hi |-> hi % Base, lo |-> lo % Base], of |-> hi >= Base]

SubW(a, b) ==
    LET borrow == IF a.lo < b.lo THEN 1 ELSE 0
        lo == a.lo + borrow * Base - b.lo
        hi == a.hi - b.hi - borrow
    IN  [v |-> [hi |-> hi % Base, lo |-> lo], of |-> hi < 0]

\* 2u32.pow(z)
pow2(z) ==
    IF z >= U32Bits THEN [v |-> U32Of(0), of |-> TRUE]
    ELSE IF z < 16 THEN [v |-> [hi |-> 0, lo |-> 2^z], of |-> FALSE]
    ELSE [v |-> [hi |-> 2^(z - 16), lo |-> 0], of |-> FALSE]

\* What a chain of u32 steps yields: overflow panics in a build with overflow
\* checks, and otherwise the computation goes on with the wrapped value.
Overflowed(steps) == \E i \in DOMAIN steps : steps[i].of
Checked(steps, r) == IF overflow_checks /\ Overflowed(steps) THEN Panic ELSE Ret(r)

-----------------------------------------------------------------------------
(* mercator.rs: TileId, TmsTileId *)

MkTileId(x, y, z) == [x |-> x, y |-> y, z |-> z]

\* A plausible slip: <= in place of <.
TileId_new_le(x, y, z) ==
    LET max == pow2(z)
    IN  Checked(<<max>>,
                IF U32Le(x, max.v) /\ U32Le(y, max.v)
                THEN Ok(MkTileId(x, y, z))
                ELSE Err("InvalidTileId"))

\* TileId::new (TmsTileId::new wraps its result)
TileId_new(x, y, z) ==
    LET max == pow2(z)
    IN  Checked(<<max>>,
                IF U32Lt(x, max.v) /\ U32Lt(y, max.v)
                THEN Ok(MkTileId(x, y, z))
                ELSE Err("InvalidTileId"))

\* A plausible slip: 2^z - y, without the - 1.
flip_y_off_by_one(t) ==
    LET max == pow2(t.z)
        d == SubW(max.v, t.y)
    IN  Checked(<<max, d>>, [t EXCEPT !.y = d.v])

\* TileId::flip_y: self.y = 2u32.pow(self.z) - 1 - self.y
flip_y(t) ==
    LET max == pow2(t.z)
        m1 == SubW(max.v, U32Of(1))
        d == SubW(m1.v, t.y)
    IN  Checked(<<max, m1, d>>, [t EXCEPT !.y = d.v])

\* impl From<TmsTileId> for TileId.  A TmsTileId wraps a TileId; the model
\* tells the two apart by the field scheme.
Tms(t) == [scheme |-> "tms", id |-> t]
TileId_from_tms(tms) == flip_y(tms.id)

\* impl From<TileId> for TmsTileId
Tms_from_TileId(t) ==
    LET f == flip_y(t)
    IN  IF f = Panic THEN Panic ELSE Ret(Tms(f.val))

\* The zoom levels tiles are drawn at: the small ones and the largest two a
\* u32 count admits; TileId::new is also called one past them.
Zooms == (0 .. MaxSmallZ) \cup {U32Bits - 2, U32Bits - 1}
NewZooms == Zooms \cup {U32Bits}

\* The indices in 0 .. 2^z - 1 tiles are drawn with: all of them at a small
\* zoom, and the ends and the middle at a large one.
IndicesAt(z) ==
    IF z <= MaxSmallZ THEN {U32Of(n) : n \in 0 .. 2^z - 1}
    ELSE {U32Of(0), U32Of(1), pow2(z - 1).v,
          SubW(pow2(z).v, U32Of(2)).v, SubW(pow2(z).v, U32Of(1)).v}

\* Indices TileId::new must reject at zoom z, and the largest u32.
PastEndAt(z) ==
    IF z >= U32Bits THEN {U32Of(0), U32Max}
    ELSE {pow2(z).v, AddW(pow2(z).v, U32Of(1)).v, U32Max}

TileIdsAt(z) == {MkTileId(x, y, z) : x \in IndicesAt(z), y \in IndicesAt(z)}
ValidTileIds == UNION {TileIdsAt(z) : z \in Zooms}

-----------------------------------------------------------------------------
(* rect.rs: Edge (bitflags) *)

LEFT == 1
RIGHT == 2
BOTTOM == 4
TOP == 8

\* Edge | Edge on the four flag bits.
RECURSIVE BitOr(_, _)
BitOr(a, b) ==
    IF a = 0 THEN b
    ELSE IF b = 0 THEN a
    ELSE (IF a % 2 = 1 \/ b % 2 = 1 THEN 1 ELSE 0) + 2 * BitOr(a \div 2, b \div 2)

-----------------------------------------------------------------------------
(* mercator.rs: TileGrid *)

TileGrid(z, tile_extent) == [z |-> z, tile_extent |-> tile_extent]

\* A plausible slip: the TOP row pushed without the y > 0 guard.
neighbours_unguarded_top(self, tile_id) ==
    LET count == pow2(self.z)
        cm1 == SubW(count.v, U32Of(1))
        xm1 == SubW(tile_id.x, U32Of(1))
        xp1 == AddW(tile_id.x, U32Of(1))
        left_x == IF U32Lt(U32Of(0), tile_id.x) THEN xm1.v ELSE cm1.v
        right_x == IF U32Lt(tile_id.x, cm1.v) THEN xp1.v ELSE U32Of(0)
        top_y == SubW(tile_id.y, U32Of(1))
        bottom_y == AddW(tile_id.y, U32Of(1))
        row == <<[edge |-> LEFT, tile |-> [tile_id EXCEPT !.x = left_x]],
                 [edge |-> RIGHT, tile |-> [tile_id EXCEPT !.x = right_x]]>>
        top == <<[edge |-> TOP, tile |-> [tile_id EXCEPT !.y = top_y.v]],
                 [edge |-> BitOr(TOP, LEFT),
                  tile |-> [tile_id EXCEPT !.x = left_x, !.y = top_y.v]],
                 [edge |-> BitOr(TOP, RIGHT),
                  tile |-> [tile_id EXCEPT !.x = right_x, !.y = top_y.v]]>>
        bottom == IF U32Lt(tile_id.y, cm1.v)
                  THEN <<[edge |-> BOTTOM, tile |-> [tile_id EXCEPT !.y = bottom_y.v]],
                         [edge |-> BitOr(BOTTOM, LEFT),
                          tile |-> [tile_id EXCEPT !.x = left_x, !.y = bottom_y.v]],
                         [edge |-> BitOr(BOTTOM, RIGHT),
                          tile |-> [tile_id EXCEPT !.x = right_x, !.y = bottom_y.v]]>>
                  ELSE <<>>
    IN  Checked(<<count, cm1>>, row \o top \o bottom)

\* TileGrid::neighbours.  Each u32 step that runs is listed with the branch
\* that runs it: x - 1 only when x > 0, x + 1 only when x < count - 1, and
\* likewise for y.
neighbours(self, tile_id) ==
    LET count == pow2(self.z)
        cm1 == SubW(count.v, U32Of(1))
        x_pos == U32Lt(U32Of(0), tile_id.x)
        x_in == U32Lt(tile_id.x, cm1.v)
        y_pos == U32Lt(U32Of(0), tile_id.y)
        y_in == U32Lt(tile_id.y, cm1.v)
        xm1 == SubW(tile_id.x, U32Of(1))
        xp1 == AddW(tile_id.x, U32Of(1))
        left_x == IF x_pos THEN xm1.v ELSE cm1.v
        right_x == IF x_in THEN xp1.v ELSE U32Of(0)
        top_y == SubW(tile_id.y, U32Of(1))
        bottom_y == AddW(tile_id.y, U32Of(1))
        row == <<[edge |-> LEFT, tile |-> [tile_id EXCEPT !.x = left_x]],
                 [edge |-> RIGHT, tile |-> [tile_id EXCEPT !.x = right_x]]>>
        top == IF y_pos
               THEN <<[edge |-> TOP, tile |-> [tile_id EXCEPT !.y = top_y.v]],
                      [edge |-> BitOr(TOP, LEFT),
                       tile |-> [tile_id EXCEPT !.x = left_x, !.y = top_y.v]],
                      [edge |-> BitOr(TOP, RIGHT),
                       tile |-> [tile_id EXCEPT !.x = right_x, !.y = top_y.v]]>>
               ELSE <<>>
        bottom == IF y_in
                  THEN <<[edge |-> BOTTOM, tile |-> [tile_id EXCEPT !.y = bottom_y.v]],
                         [edge |-> BitOr(BOTTOM, LEFT),
                          tile |-> [tile_id EXCEPT !.x = left_x, !.y = bottom_y.v]],
                         [edge |-> BitOr(BOTTOM, RIGHT),
                          tile |-> [tile_id EXCEPT !.x = right_x, !.y = bottom_y.v]]>>
                  ELSE <<>>
        steps == <<count, cm1>>
                 \o (IF x_pos THEN <<xm1>> ELSE <<>>)
                 \o (IF x_in THEN <<xp1>> ELSE <<>>)
                 \o (IF y_pos THEN <<top_y>> ELSE <<>>)
                 \o (IF y_in THEN <<bottom_y>> ELSE <<>>)
    IN  Checked(steps, row \o top \o bottom)

\* a * e for a small e (e.hi = 0, e.lo < 2^15: the tile extents of the model).
MulW(a, e) ==
    LET lo == a.lo * e.lo
        hi == a.hi * e.lo + lo \div Base
    IN  [v |-> [hi |-> hi % Base, lo |-> lo % Base], of |-> hi >= Base]

\* The value of a u32 below 2^31.
U32Val(u) == u.hi * Base + u.lo

\* (n / d).floor() as u32, d > 0: the cast saturates, a negative value to 0.
FloorAsU32(n, d) == IF n < 0 THEN U32Of(0) ELSE U32Of(n \div d)

\* ((n / d).fract() * e).floor() as i32, d > 0: fract keeps the sign of n / d.
FractTimesFloor(n, d, e) ==
    LET trunc == IF n >= 0 THEN n \div d ELSE -((-n) \div d)
    IN  ((n - trunc * d) * e) \div d

\* The forward Mercator ordinate
\*   (1.0 - ((lat_rad.tan() + 1.0 / lat_rad.cos()).ln() / PI)) / 2.0
\* in millionths (rounded down), tabulated at the latitudes of MercLats.  It
\* is 0 at +85.0511 and 10^6 at -85.0511 degrees, and outside [0, 10^6]
\* beyond them.  At +90 degrees tan is 1.6e16 in f64, not infinite, which
\* gives -5.55.
MercScale == 10^6
MercLats == {Deg(-89), Deg(-86), Deg(-85), Deg(-60), Deg(-20), 0,
             Deg(20), Deg(60), Deg(85), Deg(86), Deg(89), Deg(90)}
MercY(lat) ==
    CASE lat = Deg(-89) -> 1254609
      [] lat = Deg(-86) -> 1033912
      [] lat = Deg(-85) -> 998362
      [] lat = Deg(-60) -> 709600
      [] lat = Deg(-20) -> 556719
      [] lat = 0 -> 500000
      [] lat = Deg(20) -> 443280
      [] lat = Deg(60) -> 290399
      [] lat = Deg(85) -> 1637
      [] lat = Deg(86) -> -33913
      [] lat = Deg(89) -> -254610
      [] lat = Deg(90) -> -5551868

\* The inverse projection of tile_bbox_with_buf, and the from_degrees call on
\* its result.  A corner is kept as its pixel position and the pixel size of
\* the world, abs_count = tile_extent * 2^z (exact in f64; abs_count.of says
\* it is 2^32 or more, above every u32):
\*   lon = 360 * (px / abs_count) - 180, in [-180, 180] iff px <= abs_count;
\*   lat = atan(sinh(PI * (1 - 2 * (py / abs_count)))) * 180 / PI, which lies
\*         in [-90, 90] whatever py is.
LonInRange(px, abs_count) == abs_count.of \/ U32Le(px, abs_count.v)

bbox_corner(px, py, abs_count) ==
    IF LonInRange(px, abs_count)
    THEN Ok(GeoCoord([px |-> px, of |-> abs_count], [py |-> py, of |-> abs_count]))
    ELSE Err("InvalidGeoCoord")

\* The inverse Mercator latitude falls as py grows, until atan returns
\* exactly -PI / 2: from py / abs_count = 7 on the latitude is -90.0.
AtSouthLimit(py, abs_count) ==
    LET m == MulW(abs_count.v, U32Of(7))
    IN  ~abs_count.of /\ ~m.of /\ U32Le(m.v, py)

\* top_left.lat() < bottom_right.lat() for two corners of the projection
bbox_lat_lt(tl, br) ==
    /\ U32Lt(br.lat.py, tl.lat.py)
    /\ ~(AtSouthLimit(tl.lat.py, tl.lat.of) /\ AtSouthLimit(br.lat.py, br.lat.of))

\* TileGrid::tile_bbox_with_buf; buf is given in quarters (buf = buf_q / 4).
\* The unwrap()s panic when from_degrees or GeoRect::new refuses.
tile_bbox_with_buf(self, tile_id, buf_q) ==
    LET count == pow2(self.z)
        ext == U32Of(self.tile_extent)
        abs_count == MulW(count.v, ext)
        actual_buf == U32Of((buf_q * self.tile_extent) \div 4)
        x_ext == MulW(tile_id.x, ext)
        tl_abs_x == SubW(x_ext.v, actual_buf)
        y_ext == MulW(tile_id.y, ext)
        tl_abs_y == SubW(y_ext.v, actual_buf)
        x1 == AddW(tile_id.x, U32Of(1))
        x1_ext == MulW(x1.v, ext)
        br_abs_x == AddW(x1_ext.v, actual_buf)
        y1 == AddW(tile_id.y, U32Of(1))
        y1_ext == MulW(y1.v, ext)
        br_abs_y == AddW(y1_ext.v, actual_buf)
        steps == <<count, x_ext, tl_abs_x, y_ext, tl_abs_y,
                   x1, x1_ext, br_abs_x, y1, y1_ext, br_abs_y>>
        tl == bbox_corner(tl_abs_x.v, tl_abs_y.v, abs_count)
        br == bbox_corner(br_abs_x.v, br_abs_y.v, abs_count)
    IN  IF overflow_checks /\ Overflowed(steps) THEN Panic
        ELSE IF tl.tag = "Err" \/ br.tag = "Err" THEN Panic
        ELSE IF bbox_lat_lt(tl.val, br.val) THEN Panic
        ELSE Ret(MkGeoRect(tl.val, br.val))

\* TileGrid::tile_id, for a grid of a small zoom level (2^z is then a small
\* integer and x, y are the exact quotients below).
tile_id(self, coord) ==
    LET count == pow2(self.z)
        c == U32Val(count.v)
        \* x = (lon + 180) / 360 * count
        xn == (coord.lon + Deg(180)) * c
        xd == Deg(360)
        \* y = count * MercY(lat)
        yn == c * MercY(coord.lat)
        yd == MercScale
        tile_coord == [x |-> FractTimesFloor(xn, xd, self.tile_extent),
                       y |-> FractTimesFloor(yn, yd, self.tile_extent)]
    IN  Checked(<<count>>,
                [tile |-> MkTileId(FloorAsU32(xn, xd), FloorAsU32(yn, yd), self.z),
                 coord |-> tile_coord])

\* The largest buffer tile_bbox_with_buf is called with, in quarters.
MaxBufQ == 4

\* The pixel sizes of a tile edge grids are built with.
TileExtents == {4, 256}

-----------------------------------------------------------------------------
(* The calls *)

Init ==
    /\ overflow_checks \in BOOLEAN
    /\ op = "none"
    /\ args = <<>>
    /\ ret = Ret(<<>>)

\* The functions are pure and keep no state between calls, so a behaviour is
\* one call: the build profile is chosen, then one function is applied.
Idle == op = "none"

Call(name, a, r) ==
    /\ op' = name
    /\ args' = a
    /\ ret' = r
    /\ UNCHANGED overflow_checks

Call_from_degrees ==
    /\ Idle
    /\ \E lon \in RawLons, lat \in RawLats :
            Call("from_degrees", [lon |-> lon, lat |-> lat], Ret(from_degrees(lon, lat)))

Call_eq ==
    /\ Idle
    /\ \E a \in GeoCoords, b \in GeoCoords :
            Call("eq", [self |-> a, other |-> b], Ret(eq(a, b)))

Call_TileId_new ==
    /\ Idle
    /\ \E z \in NewZooms :
            \E x \in IF z < U32Bits THEN IndicesAt(z) \cup PastEndAt(z) ELSE PastEndAt(z),
               y \in IF z < U32Bits THEN IndicesAt(z) \cup PastEndAt(z) ELSE PastEndAt(z) :
                Call("TileId::new", [x |-> x, y |-> y, z |-> z], TileId_new(x, y, z))

Call_TileId_from_tms ==
    /\ Idle
    /\ \E t \in ValidTileIds :
            Call("TileId::from", Tms(t), TileId_from_tms(Tms(t)))

Call_Tms_from_TileId ==
    /\ Idle
    /\ \E t \in ValidTileIds :
            Call("TmsTileId::from", t, Tms_from_TileId(t))

Call_GeoRect_new ==
    /\ Idle
    /\ \E tl \in GeoCoords, br \in GeoCoords :
            Call("GeoRect::new", [top_left |-> tl, bottom_right |-> br],
                 Ret(GeoRect_new(tl, br)))

Call_center ==
    /\ Idle
    /\ \E r \in GeoRects : Call("center", [self |-> r], center(r))

Call_intersects ==
    /\ Idle
    /\ \E a \in GeoRects, b \in GeoRects :
            Call("intersects", [self |-> a, rect |-> b], Ret(intersects(a, b)))

Call_contains_rect ==
    /\ Idle
    /\ \E a \in GeoRects, b \in GeoRects :
            Call("contains_rect", [self |-> a, rect |-> b], Ret(contains_rect(a, b)))

\* neighbours of a tile of the grid's own zoom level.
Call_neighbours ==
    /\ Idle
    /\ \E z \in Zooms, e \in TileExtents :
            \E t \in TileIdsAt(z) :
                Call("neighbours", [self |-> TileGrid(z, e), tile |-> t],
                     neighbours(TileGrid(z, e), t))

\* tile_id of a valid coordinate, on a grid of a small zoom level.
Call_tile_id ==
    /\ Idle
    /\ \E z \in 0 .. MaxSmallZ, e \in TileExtents :
            \E lon \in Lons, lat \in MercLats :
                Call("tile_id",
                     [self |-> TileGrid(z, e), coord |-> from_degrees(lon, lat).val],
                     tile_id(TileGrid(z, e), from_degrees(lon, lat).val))

\* tile_bbox_with_buf of a tile of the grid's own zoom level.
Call_tile_bbox_with_buf ==
    /\ Idle
    /\ \E z \in Zooms, e \in TileExtents, buf_q \in 0 .. MaxBufQ :
            \E t \in TileIdsAt(z) :
                Call("tile_bbox_with_buf",
                     [self |-> TileGrid(z, e), tile |-> t, buf_q |-> buf_q],
                     tile_bbox_with_buf(TileGrid(z, e), t, buf_q))

Next ==
    \/ Call_tile_id
    \/ Call_tile_bbox_with_buf
    \/ Call_GeoRect_new
    \/ Call_center
    \/ Call_intersects
    \/ Call_contains_rect
    \/ Call_neighbours
    \/ Call_from_degrees
    \/ Call_eq
    \/ Call_TileId_new
    \/ Call_TileId_from_tms
    \/ Call_Tms_from_TileId

Spec == Init /\ [][Next]_vars

-----------------------------------------------------------------------------
(* The properties.  They are stated on plain numbers: a finite f64 is its   *)
(* count of half degrees, and a u32 is compared limb by limb with 2^z.      *)

Finite(v) == v \notin {NaN, PosInf, NegInf}

\* u < 2^z, for z in 0 .. 31
Below(u, z) == IF z >= 16 THEN u.hi < 2^(z - 16) ELSE u.hi = 0 /\ u.lo < 2^z

\* The u32 2^z - 1, for z in 0 .. 31
AllOnes(z) ==
    IF z >= 16 THEN [hi |-> 2^(z - 16) - 1, lo |-> Base - 1]
    ELSE [hi |-> 0, lo |-> 2^z - 1]

\* b = (a + 1) mod 2^z, for a < 2^z
IsSuccMod(a, b, z) ==
    IF a = AllOnes(z) THEN b = U32Of(0)
    ELSE AddW(a, U32Of(1)) = [v |-> b, of |-> FALSE]

\* C1: two coordinates at poles of opposite sign (latitudes 90 and -90) are
\* never equal, whatever their longitudes, +-180 on both included.
C1_OppositePolesNeverEqual ==
    (/\ op = "eq"
     /\ fabs(args.self.lat) = Deg(90)
     /\ args.other.lat = -args.self.lat)
    => ret.val = FALSE

\* C2: center() of a valid rectangle never fails; it returns a valid
\* coordinate at the latitude midpoint and at the midpoint of the longitude
\* span (wrapped through +-180 for a crossing rectangle), and the rectangle
\* contains it.
C2_CenterValidAndContained ==
    op = "center" =>
        LET r == args.self
            span == IF r.top_left.lon > r.bottom_right.lon
                    THEN r.bottom_right.lon + Deg(360) - r.top_left.lon
                    ELSE r.bottom_right.lon - r.top_left.lon
            mid == r.top_left.lon + span \div 2
        IN  /\ ret.tag = "Ret"
            /\ Deg(-180) <= ret.val.lon /\ ret.val.lon <= Deg(180)
            /\ Deg(-90) <= ret.val.lat /\ ret.val.lat <= Deg(90)
            /\ 2 * ret.val.lat = r.top_left.lat + r.bottom_right.lat
            /\ ret.val.lon \in {mid, mid - Deg(360)}
            /\ contains_coord(r, ret.val)

\* C3: tile_bbox_with_buf never fails for a valid tile of the grid's zoom
\* level and a buffer >= 0: it returns a GeoRect.
C3_BBoxWithBufNeverFails ==
    op = "tile_bbox_with_buf" => ret.tag = "Ret"

\* C4: a == b exactly when longitudes and latitudes match, or both
\* longitudes have absolute value 180, or the latitudes match and have
\* absolute value 90.
C4_EqIffIdentified ==
    op = "eq" =>
        LET a == args.self
            b == args.other
        IN  ret.val = (\/ a.lon = b.lon /\ a.lat = b.lat
                       \/ a.lon \in {Deg(-180), Deg(180)} /\ b.lon \in {Deg(-180), Deg(180)}
                       \/ a.lat = b.lat /\ a.lat \in {Deg(-90), Deg(90)})

\* The antimeridian case of C4: (-180, 20) == (180, 20).
C4_Witness ==
    /\ op = "eq"
    /\ args.self = GeoCoord(Deg(-180), Deg(20))
    /\ args.other = GeoCoord(Deg(180), Deg(20))
    /\ ret.val = TRUE

\* C5: from_degrees(lon, lat) is Ok with exactly lon and lat iff
\* -180 <= lon <= 180 and -90 <= lat <= 90, and Err(InvalidGeoCoord)
\* otherwise (so for NaN and the infinities); nothing is clamped.
C5_FromDegreesOkIffInRange ==
    op = "from_degrees" =>
        LET lon == args.lon
            lat == args.lat
            in_range == /\ Finite(lon) /\ Deg(-180) <= lon /\ lon <= Deg(180)
                        /\ Finite(lat) /\ Deg(-90) <= lat /\ lat <= Deg(90)
        IN  ret.val = IF in_range
                      THEN [tag |-> "Ok", val |-> [lon |-> lon, lat |-> lat]]
                      ELSE [tag |-> "Err", err |-> "InvalidGeoCoord"]

\* A latitude half a degree past the pole, on the dateline, is refused.
C5_Witness ==
    /\ op = "from_degrees"
    /\ args.lon = Deg(180)
    /\ args.lat = Deg(90) + 1
    /\ ret.val.tag = "Err"

\* C6: for z in 0 .. 31 a conversion between TileId and TmsTileId keeps x
\* and z, maps y to 2^z - 1 - y (again below 2^z), and converting back
\* returns the original value, in both directions.
C6_TmsRoundTrip ==
    /\ op = "TmsTileId::from" =>
        /\ ret.tag = "Ret"
        /\ ret.val.id.x = args.x /\ ret.val.id.z = args.z
        /\ AddW(args.y, ret.val.id.y) = [v |-> AllOnes(args.z), of |-> FALSE]
        /\ Below(ret.val.id.y, args.z)
        /\ TileId_from_tms(ret.val) = Ret(args)
    /\ op = "TileId::from" =>
        /\ ret.tag = "Ret"
        /\ ret.val.x = args.id.x /\ ret.val.z = args.id.z
        /\ AddW(args.id.y, ret.val.y) = [v |-> AllOnes(args.id.z), of |-> FALSE]
        /\ Below(ret.val.y, args.id.z)
        /\ Tms_from_TileId(ret.val) = Ret(args)

\* At zoom 31 the TMS row 0 becomes the XYZ row 2^31 - 1.
C6_Witness ==
    /\ op = "TileId::from"
    /\ args.id.z = U32Bits - 1
    /\ args.id.y = U32Of(0)
    /\ ret.tag = "Ret"
    /\ ret.val.y = [hi |-> 2^15 - 1, lo |-> Base - 1]

\* C7: for z in 0 .. 31, TileId::new(x, y, z) is Err(InvalidTileId) when
\* x >= 2^z or y >= 2^z, and Ok with exactly x, y, z otherwise.
C7_TileIdNewChecksRange ==
    (op = "TileId::new" /\ args.z < U32Bits) =>
        ret = [tag |-> "Ret",
               val |-> IF Below(args.x, args.z) /\ Below(args.y, args.z)
                       THEN [tag |-> "Ok",
                             val |-> [x |-> args.x, y |-> args.y, z |-> args.z]]
                       ELSE [tag |-> "Err", err |-> "InvalidTileId"]]

\* At zoom 31, x = 2^31 is refused.
C7_Witness ==
    /\ op = "TileId::new"
    /\ args.z = U32Bits - 1
    /\ args.x = [hi |-> 2^15, lo |-> 0]
    /\ args.y = U32Of(0)
    /\ ret.tag = "Ret"
    /\ ret.val.tag = "Err"

\* C8: intersects is reflexive: r.intersects(r) for every valid rectangle r.
C8_IntersectsReflexive ==
    (op = "intersects" /\ args.self = args.rect) => ret.val = TRUE

\* A zero-width, zero-height rectangle away from the poles meets itself.
C8_Witness ==
    /\ op = "intersects"
    /\ args.self = args.rect
    /\ args.self.top_left = GeoCoord(Deg(10), Deg(20))
    /\ args.self.bottom_right = GeoCoord(Deg(10), Deg(20))
    /\ ret.val = TRUE

\* C9: the TileId tile_id returns for a valid coordinate satisfies the
\* TileId invariant: z is the grid's, x < 2^z and y < 2^z.
C9_TileIdInvariant ==
    (op = "tile_id" /\ ret.tag = "Ret") =>
        /\ ret.val.tile.z = args.self.z
        /\ Below(ret.val.tile.x, args.self.z)
        /\ Below(ret.val.tile.y, args.self.z)

\* C10: for a valid tile t of the grid's zoom, neighbours returns exactly
\* 2 + 3*[t.y > 0] + 3*[t.y < 2^z - 1] entries: LEFT at (t.x - 1) mod 2^z and
\* RIGHT at (t.x + 1) mod 2^z in row t.y; then TOP, TOP|LEFT, TOP|RIGHT in row
\* t.y - 1 iff t.y > 0; then BOTTOM, BOTTOM|LEFT, BOTTOM|RIGHT in row t.y + 1
\* iff t.y < 2^z - 1; and every tile returned keeps z and has x, y < 2^z.
C10_Neighbours ==
    op = "neighbours" =>
        LET t == args.tile
            z == args.self.z
            r == ret.val
            has_top == t.y # U32Of(0)
            has_bottom == t.y # AllOnes(z)
            b == IF has_top THEN 5 ELSE 2
        IN  /\ ret.tag = "Ret"
            /\ Len(r) = 2 + (IF has_top THEN 3 ELSE 0) + (IF has_bottom THEN 3 ELSE 0)
            /\ r[1].edge = LEFT /\ r[1].tile.y = t.y
            /\ IsSuccMod(r[1].tile.x, t.x, z)
            /\ r[2].edge = RIGHT /\ r[2].tile.y = t.y
            /\ IsSuccMod(t.x, r[2].tile.x, z)
            /\ has_top =>
                /\ <<r[3].edge, r[4].edge, r[5].edge>> = <<TOP, TOP + LEFT, TOP + RIGHT>>
                /\ <<r[3].tile.x, r[4].tile.x, r[5].tile.x>>
                       = <<t.x, r[1].tile.x, r[2].tile.x>>
                /\ \A i \in 3 .. 5 :
                       AddW(r[i].tile.y, U32Of(1)) = [v |-> t.y, of |-> FALSE]
            /\ has_bottom =>
                /\ <<r[b + 1].edge, r[b + 2].edge, r[b + 3].edge>>
                       = <<BOTTOM, BOTTOM + LEFT, BOTTOM + RIGHT>>
                /\ <<r[b + 1].tile.x, r[b + 2].tile.x, r[b + 3].tile.x>>
                       = <<t.x, r[1].tile.x, r[2].tile.x>>
                /\ \A i \in b + 1 .. b + 3 :
                       AddW(t.y, U32Of(1)) = [v |-> r[i].tile.y, of |-> FALSE]
            /\ \A i \in 1 .. Len(r) :
                   /\ r[i].tile.z = z
                   /\ Below(r[i].tile.x, z)
                   /\ Below(r[i].tile.y, z)

\* The only tile of zoom 0 has two neighbours, itself to the left and right.
C10_Witness ==
    /\ op = "neighbours"
    /\ args.self.z = 0
    /\ ret.tag = "Ret"
    /\ Len(ret.val) = 2
    /\ ret.val[1].tile = args.tile

\* Every coordinate the rectangle b contains is contained in a.
CoversCoordsOf(a, b) ==
    \A c \in GeoCoords : contains_coord(b, c) => contains_coord(a, c)

\* C11, as claimed: contains_rect is sound with respect to contains_coord:
\* if a.contains_rect(b) then every coordinate b contains, a contains.
C11_ContainsRectSound ==
    (op = "contains_rect" /\ ret.val = TRUE) => CoversCoordsOf(args.self, args.rect)

\* The corners of b lie on the sides of a crossing rectangle a that fit b's
\* own shape: a crossing b starts in a's eastern part [a.top_left.lon, 180]
\* and ends in its western part [-180, a.bottom_right.lon]; a non-crossing b
\* has both corners in the same part.
CornersFit(a, b) ==
    LET tl_east == a.top_left.lon <= b.top_left.lon
        br_east == a.top_left.lon <= b.bottom_right.lon
        tl_west == b.top_left.lon <= a.bottom_right.lon
        br_west == b.bottom_right.lon <= a.bottom_right.lon
    IN  IF b.top_left.lon > b.bottom_right.lon
        THEN tl_east /\ br_west
        ELSE (tl_east /\ br_east) \/ (tl_west /\ br_west)

\* C11, amended: if a.contains_rect(b), and a does not cross the dateline or
\* the corners of b fit a's two parts, then every coordinate b contains, a
\* contains.
C11_ContainsRectSoundAmended ==
    (/\ op = "contains_rect"
     /\ ret.val = TRUE
     /\ \/ args.self.top_left.lon <= args.self.bottom_right.lon
        \/ CornersFit(args.self, args.rect))
    => CoversCoordsOf(args.self, args.rect)

\* A rectangle spanning every longitude contains a crossing one (the dateline
\* case of contains_rect).
C11_Witness ==
    /\ op = "contains_rect"
    /\ args.self = MkGeoRect(GeoCoord(Deg(-180), Deg(20)), GeoCoord(Deg(180), Deg(-20)))
    /\ args.rect = MkGeoRect(GeoCoord(Deg(10), Deg(20)), GeoCoord(Deg(-10), Deg(-20)))
    /\ ret.val = TRUE

====
